---- MODULE Spec2Model ----
(***************************************************************************)
(* State-machine model of ServiceEnumerator.execute and its helpers        *)
(* (scapy/contrib/automotive/scanner/enumerator.py).                       *)
(*                                                                         *)
(* One enumerator instance, driven by a single-threaded caller.  A call of *)
(* execute(socket, state, **kwargs) is Execute (lines 160-171), then one   *)
(* Iterate step per pass through the body of the for loop (lines 173-201), *)
(* then Finish (lines 203-206) unless a pass returned or raised.  While a  *)
(* call is running no other operation is enabled.  The keyword options are *)
(* the configuration of the scan: any combination of the four, passed      *)
(* unchanged to every call of execute.  Between two calls the caller may   *)
(* ask for a new edge (GetNewEdge) or have the negative-response blacklist *)
(* recomputed (PrepareBlacklist).                                          *)
(***************************************************************************)
EXTENDS Integers, Sequences, FiniteSets, TLC

\* ------------------------------------------------------------------ bounds
\* Length of the sequence produced by _get_initial_requests.
MaxReq == 2
\* Total number of socket.sr1 calls in a behaviour.
MaxExchanges == 3
\* calls of socket.sr1 followed after a long scan
MaxFurther == 2

\* ------------------------------------------------------- program constants
NEGATIVE_RESPONSE == 127      \* response.service == 0x7f
BUSY == 33                    \* 0x21, busyRepeatRequest
SERVICE_NOT_SUPPORTED == 17   \* 0x11
SERVICE_NOT_SUPPORTED_IN_SESSION == 127     \* 0x7f
GENERAL_REJECT == 16          \* 0x10
\* self._negative_response_blacklist after __init__, line 58
SeedBlacklist == <<GENERAL_REJECT, SERVICE_NOT_SUPPORTED>>

\* ------------------------------------------------------------------ values
States == {"S1", "S2"}
NoState == "none"
\* A request is identified by its position in the initial-request sequence:
\* the position stands for the bytes of the packet.
NoPkt == 0
\* An edge of the state graph is a pair <<old state, new state>>.
NoEdge == <<>>

\* A response packet: its service byte, its negative response code and the
\* EcuState it moves the device to (NoState: not a modifier packet).
\* None is Python's None (sr1 timed out).
None == [service |-> 0, code |-> 0, newstate |-> NoState]
NR(c) == [service |-> NEGATIVE_RESPONSE, code |-> c, newstate |-> NoState]
PR(t) == [service |-> 80, code |-> 0, newstate |-> t]
\* The answers of the device: busy and the two serviceNotSupported codes,
\* a positive response that is no modifier packet, and a positive response
\* that moves the device to S2 (a change of state when sent in S1, none
\* when sent in S2).
NegativeCodes == {BUSY, SERVICE_NOT_SUPPORTED, SERVICE_NOT_SUPPORTED_IN_SESSION}
Responses == {NR(c) : c \in NegativeCodes} \cup {PR(t) : t \in {NoState, "S2"}}

\* The keyword options read by _evaluate_response, and their defaults.
Kwargs == [exit_if_no_answer_received : BOOLEAN,
           exit_if_service_not_supported : BOOLEAN,
           retry_if_busy_returncode : BOOLEAN,
           exit_scan_on_first_negative_response : BOOLEAN]
\* With exit_scan_on_first_negative_response set, line 226 decides every
\* negative response before exit_if_service_not_supported and
\* retry_if_busy_returncode are looked at, and for any other response these
\* two options decide nothing: the scans with that option set are
\* represented by those that leave the two at their defaults.
DistinctKwargs ==
    {kw \in Kwargs :
        kw.exit_scan_on_first_negative_response
            => (~kw.exit_if_service_not_supported /\ kw.retry_if_busy_returncode)}
DefaultKwargs == [exit_if_no_answer_received |-> FALSE,
                  exit_if_service_not_supported |-> FALSE,
                  retry_if_busy_returncode |-> TRUE,
                  exit_scan_on_first_negative_response |-> FALSE]

VARIABLES
    nrequests,          \* length of the sequence _get_initial_requests yields
    results,            \* self._results: sequence of [state, req, resp,
                        \*   req_obj, resp_obj]: the bytes of the two packets
                        \*   and the packet instances the result holds
    result_packets,     \* self.__result_packets: bytes -> packet instance
    negative_response_blacklist,    \* self._negative_response_blacklist
    edge_requests,      \* self._edge_requests: edge -> request
    op,                 \* the caller's last operation and the edge it returned
    request_iterators,  \* self._request_iterators: state -> items drawn so far
    retry_pkt,          \* self._retry_pkt: state -> request or NoPkt
    state_completed,    \* self._state_completed: states set to True
    pc,                 \* "idle" | "loop": outside execute | at line 173
    state,              \* the parameter state of the running or the last call
    kwargs,             \* execute's **kwargs, the same in every call of a scan
    it,                 \* the retry part of the chain built at line 157
    nsent,              \* number of requests sent so far in the running call
    ret,                \* how the last call of execute ended
    trace               \* every socket.sr1 call so far, as the transport saw it

vars == <<nrequests, results, result_packets, negative_response_blacklist,
          edge_requests, op, request_iterators, retry_pkt, state_completed,
          pc, state, kwargs, it, nsent, ret, trace>>

\* _get_initial_requests, lines 90-93: the requests of a state, in order.
InitialRequests == [i \in 1..nrequests |-> i]

\* ----------------------------------------------------------------- helpers
get_negative_response_code(resp) == resp.code

is_modifier_pkt(resp) == resp.newstate # NoState

get_modified_ecu_state(resp, rq, st) == resp.newstate

\* Faulty variant: the retry slot is not consulted when the chain is built.
get_retry_iterator_empty(st) == <<>>

\* __get_retry_iterator, lines 136-145
get_retry_iterator(st) ==
    IF retry_pkt[st] = NoPkt THEN <<>> ELSE <<retry_pkt[st]>>

\* Faulty variant: the generator is instantiated anew on every call.
get_initial_request_iterator_restart(st) ==
    [s \in DOMAIN request_iterators \cup {st} |->
        IF s = st THEN 0 ELSE request_iterators[s]]

\* __get_initial_request_iterator, lines 147-153: the memoized generator of a
\* state, represented by the number of items already drawn from it.
get_initial_request_iterator(st) ==
    IF st \in DOMAIN request_iterators
    THEN request_iterators
    ELSE request_iterators @@ (st :> 0)

\* Number of items drawn from the generator of st (0 when not instantiated).
Drawn(st) == IF st \in DOMAIN request_iterators THEN request_iterators[st] ELSE 0

\* The chain of line 157 has no further item.
ChainExhausted == it = <<>> /\ request_iterators[state] = Len(InitialRequests)

\* next(it) on the chain of line 157: the request, where it came from, and
\* the chain afterwards.
ChainNext ==
    IF it # <<>>
    THEN [req |-> Head(it), src |-> "retry", it |-> Tail(it),
          iters |-> request_iterators]
    ELSE [req |-> InitialRequests[request_iterators[state] + 1], src |-> "fresh",
          it |-> it,
          iters |-> [request_iterators EXCEPT ![state] = @ + 1]]

\* The packet instances: the generator of state st creates one request
\* object per position, and every answered socket.sr1 call returns a new
\* response object, named by the number of the call.
RequestObject(st, rq) == <<st, rq>>
ResponseObject == Len(trace) + 1
NoObject == 0

\* Faulty variant: the table entry of a request is replaced by the instance just sent.
intern_latest(st, rq, rs) ==
    [req  |-> (rq :> RequestObject(st, rq)) @@ result_packets.req,
     resp |-> IF rs # None /\ rs \notin DOMAIN result_packets.resp
              THEN result_packets.resp @@ (rs :> ResponseObject)
              ELSE result_packets.resp]

\* _store_result, lines 123-127: self.__result_packets after the two
\* "not in" tests.  The table is keyed by the bytes of a packet; request and
\* response bytes never coincide, so it is kept as two maps.
intern(st, rq, rs) ==
    [req  |-> IF rq \notin DOMAIN result_packets.req
              THEN result_packets.req @@ (rq :> RequestObject(st, rq))
              ELSE result_packets.req,
     resp |-> IF rs # None /\ rs \notin DOMAIN result_packets.resp
              THEN result_packets.resp @@ (rs :> ResponseObject)
              ELSE result_packets.resp]

\* Faulty variant: an exchange that timed out is not recorded.
store_result_answered_only(st, rq, rs) ==
    LET table == intern(st, rq, rs)
    IN  IF rs = None
        THEN results
        ELSE Append(results,
                    [state |-> st, req |-> rq, resp |-> rs,
                     req_obj |-> table.req[rq], resp_obj |-> table.resp[rs]])

\* Faulty variant: the new result is put in front of the stored ones.
store_result_prepend(st, rq, rs) ==
    LET table == intern(st, rq, rs)
    IN  <<[state |-> st, req |-> rq, resp |-> rs,
           req_obj |-> table.req[rq],
           resp_obj |-> IF rs = None THEN NoObject ELSE table.resp[rs]]>>
        \o results

\* _store_result, lines 129-134: the appended tuple holds the instances found
\* in the table.
store_result(st, rq, rs) ==
    LET table == intern(st, rq, rs)
    IN  Append(results,
               [state |-> st, req |-> rq, resp |-> rs,
                req_obj |-> table.req[rq],
                resp_obj |-> IF rs = None THEN NoObject ELSE table.resp[rs]])

\* The retry slot after a transport failure, lines 176-184
RetryAfterException(st, rq) ==
    IF retry_pkt[st] = NoPkt THEN [retry_pkt EXCEPT ![st] = rq] ELSE retry_pkt

\* Faulty variant: a busy answer to the resent request leaves the retry slot filled.
evaluate_response_keeps_retry(st, rq, rs, kw) ==
    LET keep == [stop |-> FALSE, retry_pkt |-> retry_pkt,
                 state_completed |-> state_completed]
        cleared == [retry_pkt EXCEPT ![st] = NoPkt]
        modified == is_modifier_pkt(rs) /\ st # get_modified_ecu_state(rs, rq, st)
    IN  IF rs = None
        THEN [keep EXCEPT !.stop = kw.exit_if_no_answer_received]
        ELSE IF kw.exit_scan_on_first_negative_response
                /\ rs.service = NEGATIVE_RESPONSE
        THEN [keep EXCEPT !.stop = TRUE]
        ELSE IF kw.exit_if_service_not_supported
                /\ rs.service = NEGATIVE_RESPONSE
                /\ get_negative_response_code(rs) \in
                       {SERVICE_NOT_SUPPORTED, SERVICE_NOT_SUPPORTED_IN_SESSION}
        THEN [keep EXCEPT !.stop = TRUE,
                          !.state_completed = state_completed \cup {st}]
        ELSE IF kw.retry_if_busy_returncode
                /\ rs.service = NEGATIVE_RESPONSE
                /\ get_negative_response_code(rs) = BUSY
        THEN IF retry_pkt[st] = NoPkt
             THEN [keep EXCEPT !.stop = TRUE,
                               !.retry_pkt = [retry_pkt EXCEPT ![st] = rq]]
             ELSE [keep EXCEPT !.stop = FALSE]
        ELSE [keep EXCEPT !.stop = modified, !.retry_pkt = cleared]

\* Faulty variant: the state is marked completed when a busy answer schedules a
\* retry, as it is for serviceNotSupported.
evaluate_response_completes_on_retry(st, rq, rs, kw) ==
    LET keep == [stop |-> FALSE, retry_pkt |-> retry_pkt,
                 state_completed |-> state_completed]
        cleared == [retry_pkt EXCEPT ![st] = NoPkt]
        modified == is_modifier_pkt(rs) /\ st # get_modified_ecu_state(rs, rq, st)
    IN  IF rs = None
        THEN [keep EXCEPT !.stop = kw.exit_if_no_answer_received]
        ELSE IF kw.exit_scan_on_first_negative_response
                /\ rs.service = NEGATIVE_RESPONSE
        THEN [keep EXCEPT !.stop = TRUE]
        ELSE IF kw.exit_if_service_not_supported
                /\ rs.service = NEGATIVE_RESPONSE
                /\ get_negative_response_code(rs) \in
                       {SERVICE_NOT_SUPPORTED, SERVICE_NOT_SUPPORTED_IN_SESSION}
        THEN [keep EXCEPT !.stop = TRUE,
                          !.state_completed = state_completed \cup {st}]
        ELSE IF kw.retry_if_busy_returncode
                /\ rs.service = NEGATIVE_RESPONSE
                /\ get_negative_response_code(rs) = BUSY
        THEN IF retry_pkt[st] = NoPkt
             THEN [keep EXCEPT !.stop = TRUE,
                               !.retry_pkt = [retry_pkt EXCEPT ![st] = rq],
                               !.state_completed = state_completed \cup {st}]
             ELSE [keep EXCEPT !.stop = FALSE, !.retry_pkt = cleared]
        ELSE [keep EXCEPT !.stop = modified, !.retry_pkt = cleared]

\* Faulty variant: serviceNotSupportedInActiveSession (0x7f) does not end the scan of
\* the state.
evaluate_response_only_0x11(st, rq, rs, kw) ==
    LET keep == [stop |-> FALSE, retry_pkt |-> retry_pkt,
                 state_completed |-> state_completed]
        cleared == [retry_pkt EXCEPT ![st] = NoPkt]
        modified == is_modifier_pkt(rs) /\ st # get_modified_ecu_state(rs, rq, st)
    IN  IF rs = None
        THEN [keep EXCEPT !.stop = kw.exit_if_no_answer_received]
        ELSE IF kw.exit_scan_on_first_negative_response
                /\ rs.service = NEGATIVE_RESPONSE
        THEN [keep EXCEPT !.stop = TRUE]
        ELSE IF kw.exit_if_service_not_supported
                /\ rs.service = NEGATIVE_RESPONSE
                /\ get_negative_response_code(rs) \in
                       {SERVICE_NOT_SUPPORTED}
        THEN [keep EXCEPT !.stop = TRUE,
                          !.state_completed = state_completed \cup {st}]
        ELSE IF kw.retry_if_busy_returncode
                /\ rs.service = NEGATIVE_RESPONSE
                /\ get_negative_response_code(rs) = BUSY
        THEN IF retry_pkt[st] = NoPkt
             THEN [keep EXCEPT !.stop = TRUE,
                               !.retry_pkt = [retry_pkt EXCEPT ![st] = rq]]
             ELSE [keep EXCEPT !.stop = FALSE, !.retry_pkt = cleared]
        ELSE [keep EXCEPT !.stop = modified, !.retry_pkt = cleared]

\* Faulty variant: a missing answer never ends the call.
evaluate_response_no_answer_continues(st, rq, rs, kw) ==
    LET keep == [stop |-> FALSE, retry_pkt |-> retry_pkt,
                 state_completed |-> state_completed]
        cleared == [retry_pkt EXCEPT ![st] = NoPkt]
        modified == is_modifier_pkt(rs) /\ st # get_modified_ecu_state(rs, rq, st)
    IN  IF rs = None
        THEN [keep EXCEPT !.stop = FALSE]
        ELSE IF kw.exit_scan_on_first_negative_response
                /\ rs.service = NEGATIVE_RESPONSE
        THEN [keep EXCEPT !.stop = TRUE]
        ELSE IF kw.exit_if_service_not_supported
                /\ rs.service = NEGATIVE_RESPONSE
                /\ get_negative_response_code(rs) \in
                       {SERVICE_NOT_SUPPORTED, SERVICE_NOT_SUPPORTED_IN_SESSION}
        THEN [keep EXCEPT !.stop = TRUE,
                          !.state_completed = state_completed \cup {st}]
        ELSE IF kw.retry_if_busy_returncode
                /\ rs.service = NEGATIVE_RESPONSE
                /\ get_negative_response_code(rs) = BUSY
        THEN IF retry_pkt[st] = NoPkt
             THEN [keep EXCEPT !.stop = TRUE,
                               !.retry_pkt = [retry_pkt EXCEPT ![st] = rq]]
             ELSE [keep EXCEPT !.stop = FALSE, !.retry_pkt = cleared]
        ELSE [keep EXCEPT !.stop = modified, !.retry_pkt = cleared]

\* Faulty variant: a response that changes the state of the device does not end the
\* call.
evaluate_response_ignores_modifier(st, rq, rs, kw) ==
    LET keep == [stop |-> FALSE, retry_pkt |-> retry_pkt,
                 state_completed |-> state_completed]
        cleared == [retry_pkt EXCEPT ![st] = NoPkt]
        modified == is_modifier_pkt(rs) /\ st # get_modified_ecu_state(rs, rq, st)
    IN  IF rs = None
        THEN [keep EXCEPT !.stop = kw.exit_if_no_answer_received]
        ELSE IF kw.exit_scan_on_first_negative_response
                /\ rs.service = NEGATIVE_RESPONSE
        THEN [keep EXCEPT !.stop = TRUE]
        ELSE IF kw.exit_if_service_not_supported
                /\ rs.service = NEGATIVE_RESPONSE
                /\ get_negative_response_code(rs) \in
                       {SERVICE_NOT_SUPPORTED, SERVICE_NOT_SUPPORTED_IN_SESSION}
        THEN [keep EXCEPT !.stop = TRUE,
                          !.state_completed = state_completed \cup {st}]
        ELSE IF kw.retry_if_busy_returncode
                /\ rs.service = NEGATIVE_RESPONSE
                /\ get_negative_response_code(rs) = BUSY
        THEN IF retry_pkt[st] = NoPkt
             THEN [keep EXCEPT !.stop = TRUE,
                               !.retry_pkt = [retry_pkt EXCEPT ![st] = rq]]
             ELSE [keep EXCEPT !.stop = FALSE, !.retry_pkt = cleared]
        ELSE [keep EXCEPT !.stop = FALSE, !.retry_pkt = cleared]

\* _evaluate_response, lines 208-267: the stop decision together with the
\* retry slots and the completed set it leaves behind.
evaluate_response(st, rq, rs, kw) ==
    LET keep == [stop |-> FALSE, retry_pkt |-> retry_pkt,
                 state_completed |-> state_completed]
        cleared == [retry_pkt EXCEPT ![st] = NoPkt]
        modified == is_modifier_pkt(rs) /\ st # get_modified_ecu_state(rs, rq, st)
    IN  IF rs = None
        THEN [keep EXCEPT !.stop = kw.exit_if_no_answer_received]
        ELSE IF kw.exit_scan_on_first_negative_response
                /\ rs.service = NEGATIVE_RESPONSE
        THEN [keep EXCEPT !.stop = TRUE]
        ELSE IF kw.exit_if_service_not_supported
                /\ rs.service = NEGATIVE_RESPONSE
                /\ get_negative_response_code(rs) \in
                       {SERVICE_NOT_SUPPORTED, SERVICE_NOT_SUPPORTED_IN_SESSION}
        THEN [keep EXCEPT !.stop = TRUE,
                          !.state_completed = state_completed \cup {st}]
        ELSE IF kw.retry_if_busy_returncode
                /\ rs.service = NEGATIVE_RESPONSE
                /\ get_negative_response_code(rs) = BUSY
        THEN IF retry_pkt[st] = NoPkt
             THEN [keep EXCEPT !.stop = TRUE,
                               !.retry_pkt = [retry_pkt EXCEPT ![st] = rq]]
             ELSE [keep EXCEPT !.stop = FALSE, !.retry_pkt = cleared]
        ELSE [keep EXCEPT !.stop = modified, !.retry_pkt = cleared]

\* ------------------------------------------------------------------ actions
\* ServiceEnumerator.__init__, lines 51-58, and
\* StateGeneratingServiceEnumerator.__init__, lines 539-547.
Constructed ==
    /\ results = <<>>
    /\ result_packets = [req |-> <<>>, resp |-> <<>>]
    /\ negative_response_blacklist = SeedBlacklist
    /\ edge_requests = <<>>
    /\ request_iterators = <<>>
    /\ retry_pkt = [s \in States |-> NoPkt]
    /\ state_completed = {}

\* No operation has been called yet.
NotStarted ==
    /\ op = [name |-> "none", edge |-> NoEdge]
    /\ pc = "idle"
    /\ state = NoState
    /\ it = <<>>
    /\ nsent = 0
    /\ ret = "none"
    /\ trace = <<>>

Init ==
    /\ nrequests = MaxReq
    /\ Constructed
    /\ NotStarted
    /\ kwargs \in DistinctKwargs
\* execute returns or raises: its iterator and counter are gone.
Return(how) ==
    /\ pc' = "idle"
    /\ ret' = how
    /\ it' = <<>>
    /\ nsent' = 0

\* What execute and the loop body never touch.
Untouched == <<nrequests, negative_response_blacklist, edge_requests, kwargs>>

\* execute(socket, st, **kwargs), lines 160-171: build the request iterator
\* of the state.
Call(st) ==
    /\ pc = "idle"
    /\ it' = get_retry_iterator(st)
    /\ request_iterators' = get_initial_request_iterator(st)
    /\ state' = st
    /\ pc' = "loop"
    /\ ret' = "running"
    /\ nsent' = 0
    /\ op' = [name |-> "execute", edge |-> NoEdge]
    /\ UNCHANGED <<results, result_packets, retry_pkt, state_completed, trace>>
    /\ UNCHANGED Untouched

\* A call of execute for any state.  A behaviour is cut off after
\* MaxExchanges calls of socket.sr1.
Execute ==
    /\ Len(trace) < MaxExchanges
    /\ \E st \in States : Call(st)

\* What the transport saw of one pass through the loop body, and what the
\* pass did: the request and where the chain took it from, whether it was
\* the first of its call, sr1's outcome, how the pass ended, and the retry
\* slot, the completed flag and the number of stored results of the state
\* before and after the pass.
Entry(nx, out, rs, end, slot, done, nresults) ==
    [state |-> state, req |-> nx.req, src |-> nx.src, first |-> nsent = 0,
     out |-> out, resp |-> rs, end |-> end,
     pending |-> retry_pkt[state], after |-> slot[state],
     done_before |-> state \in state_completed, done_after |-> state \in done,
     stored |-> nresults - Len(results)]

\* Faulty variant: a closed transport ends the loop like an exhausted iterator.
SocketClosed_completes(nx) ==
    /\ state_completed' = state_completed \cup {state}
    /\ trace' = Append(trace, Entry(nx, "closed", None, "closed", retry_pkt,
                                    state_completed', Len(results)))
    /\ Return("closed")
    /\ UNCHANGED <<results, result_packets, retry_pkt>>

\* socket.sr1 raises, lines 176-184
Sr1Raises(nx) ==
    /\ retry_pkt' = RetryAfterException(state, nx.req)
    /\ trace' = Append(trace, Entry(nx, "raise", None, "raise", retry_pkt',
                                    state_completed, Len(results)))
    /\ Return("raise")
    /\ UNCHANGED <<results, result_packets, state_completed>>

\* socket.closed after the exchange, lines 186-188
SocketClosed(nx) ==
    /\ trace' = Append(trace, Entry(nx, "closed", None, "closed", retry_pkt,
                                    state_completed, Len(results)))
    /\ Return("closed")
    /\ UNCHANGED <<results, result_packets, retry_pkt, state_completed>>

\* Faulty variant: an exceeded execution time leaves the loop with break, so that
\* lines 203-206 run.
Answered_break(nx, rs) ==
    LET ev == evaluate_response(state, nx.req, rs, kwargs)
        log(end) == trace' = Append(trace, Entry(nx, "ok", rs, end, retry_pkt',
                                                 state_completed', Len(results')))
    IN  /\ results' = store_result(state, nx.req, rs)
        /\ result_packets' = intern(state, nx.req, rs)
        /\ retry_pkt' = ev.retry_pkt
        /\ IF ev.stop
           THEN /\ state_completed' = ev.state_completed
                /\ Return("stop") /\ log("stop")
           ELSE \/ /\ state_completed' = ev.state_completed \cup {state}
                   /\ Return("timeout") /\ log("timeout")
                \/ /\ state_completed' = ev.state_completed
                   /\ pc' = "loop"
                   /\ it' = nx.it
                   /\ nsent' = nsent + 1
                   /\ log("continue")
                   /\ UNCHANGED ret

\* A response or a timeout: lines 190-201, store the result, evaluate the
\* response, then check the execution time.
Answered(nx, rs) ==
    LET ev == evaluate_response(state, nx.req, rs, kwargs)
        log(end) == trace' = Append(trace, Entry(nx, "ok", rs, end, retry_pkt',
                                                 state_completed', Len(results')))
    IN  /\ results' = store_result(state, nx.req, rs)
        /\ result_packets' = intern(state, nx.req, rs)
        /\ retry_pkt' = ev.retry_pkt
        /\ state_completed' = ev.state_completed
        /\ IF ev.stop
           THEN Return("stop") /\ log("stop")
           ELSE \/ Return("timeout") /\ log("timeout")
                \/ /\ pc' = "loop"
                   /\ it' = nx.it
                   /\ nsent' = nsent + 1
                   /\ log("continue")
                   /\ UNCHANGED ret

\* One pass through the body of the for loop, lines 173-201.
Iterate ==
    /\ pc = "loop"
    /\ ~ChainExhausted
    /\ Len(trace) < MaxExchanges
    /\ UNCHANGED <<state, op>>
    /\ UNCHANGED Untouched
    /\ LET nx == ChainNext
       IN  /\ request_iterators' = nx.iters
           /\ \/ Sr1Raises(nx)
              \/ SocketClosed(nx)
              \/ \E rs \in Responses \cup {None} : Answered(nx, rs)

\* Lines 203-206: the for loop ran out of requests.
Finish ==
    /\ pc = "loop"
    /\ ChainExhausted
    /\ state_completed' = state_completed \cup {state}
    /\ Return("exhausted")
    /\ UNCHANGED <<results, result_packets, request_iterators, retry_pkt, state,
                   op, trace>>
    /\ UNCHANGED Untouched

Next == Execute \/ Iterate \/ Finish

Spec == Init /\ [][Next]_vars

\* ------------------------------------------------------------ derived views
\* res.time of line 134: None exactly when there is no response, since a
\* received packet always carries its time.
NoTime == "none"
resp_ts(r) == IF r.resp = None THEN NoTime ELSE "received"

\* nrc in self.negative_response_blacklist
in_list(x, l) == \E i \in DOMAIN l : l[i] = x

\* results_with_response, lines 362-373
results_with_response ==
    SelectSeq(results, LAMBDA r : ~(r.resp = None) /\ ~(resp_ts(r) = NoTime))

\* Faulty variant: a blacklisted negative response is shown all the same.
filtered_results_unfiltered ==
    SelectSeq(results_with_response,
              LAMBDA r : \/ r.resp.service # NEGATIVE_RESPONSE
                         \/ in_list(get_negative_response_code(r.resp),
                                    negative_response_blacklist)
                         \/ r.resp.service = NEGATIVE_RESPONSE)

\* filtered_results, lines 375-387
filtered_results ==
    SelectSeq(results_with_response,
              LAMBDA r : \/ r.resp.service # NEGATIVE_RESPONSE
                         \/ ~in_list(get_negative_response_code(r.resp),
                                     negative_response_blacklist))

\* results_with_negative_response, lines 398-406
results_with_negative_response ==
    SelectSeq(results, LAMBDA r : r.resp # None /\ r.resp.service = NEGATIVE_RESPONSE)

\* results_with_positive_response, lines 408-416
results_with_positive_response ==
    SelectSeq(results, LAMBDA r : r.resp # None /\ r.resp.service # NEGATIVE_RESPONSE)

\* results_without_response, lines 418-425
results_without_response == SelectSeq(results, LAMBDA r : r.resp = None)

\* ---------------------------------------------------------------- blacklist
\* The keys of nrc_dict, lines 342-344, in the order the loop of line 347
\* visits them: the codes of the negative responses, ordered by their first
\* occurrence.
RECURSIVE keys_by_first_occurrence(_, _)
keys_by_first_occurrence(codes, neg) ==
    IF codes = {}
    THEN <<>>
    ELSE LET first(c) == CHOOSE i \in DOMAIN neg :
                 /\ get_negative_response_code(neg[i].resp) = c
                 /\ \A j \in 1..(i - 1) :
                        get_negative_response_code(neg[j].resp) # c
             nrc == CHOOSE c \in codes : \A d \in codes : first(c) <= first(d)
         IN  <<nrc>> \o keys_by_first_occurrence(codes \ {nrc}, neg)

nrc_keys(neg) ==
    keys_by_first_occurrence(
        {get_negative_response_code(neg[i].resp) : i \in DOMAIN neg}, neg)

\* list.remove: the first occurrence of x is taken out of l.
list_remove(l, x) ==
    LET i == CHOOSE k \in DOMAIN l : l[k] = x /\ \A j \in 1..(k - 1) : l[j] # x
    IN  SubSeq(l, 1, i - 1) \o SubSeq(l, i + 1, Len(l))

\* Faulty variant: every blacklisted code with fewer than ten occurrences is dropped,
\* those that never occurred included.
RECURSIVE blacklist_after_all_codes(_, _, _)
blacklist_after_all_codes(blacklist, keys, neg) ==
    LET count(c) == Cardinality({i \in DOMAIN neg :
                                    get_negative_response_code(neg[i].resp) = c})
    IN  IF keys = <<>>
        THEN SelectSeq(blacklist, LAMBDA c : count(c) >= 10)
        ELSE LET nrc == Head(keys)
                 added == IF /\ ~in_list(nrc, blacklist)
                             /\ count(nrc) > 30
                             /\ 10 * count(nrc) > 3 * Len(neg)
                          THEN Append(blacklist, nrc)
                          ELSE blacklist
             IN  blacklist_after_all_codes(added, Tail(keys), neg)

\* Faulty variant: a blacklisted code is also dropped when its share of the
\* negative responses is no longer above 30 %.
RECURSIVE blacklist_after_by_share(_, _, _)
blacklist_after_by_share(blacklist, keys, neg) ==
    IF keys = <<>>
    THEN blacklist
    ELSE LET nrc == Head(keys)
             nr_count == Cardinality({i \in DOMAIN neg :
                             get_negative_response_code(neg[i].resp) = nrc})
             total_nr_count == Len(neg)
             added == IF /\ ~in_list(nrc, blacklist)
                         /\ nr_count > 30
                         /\ 10 * nr_count > 3 * total_nr_count
                      THEN Append(blacklist, nrc)
                      ELSE blacklist
             removed == IF /\ in_list(nrc, added)
                           /\ \/ nr_count < 10
                              \/ 10 * nr_count <= 3 * total_nr_count
                        THEN list_remove(added, nrc)
                        ELSE added
         IN  blacklist_after_by_share(removed, Tail(keys), neg)

\* The loop of lines 347-355 over the remaining keys of nrc_dict.  The test
\* nr_count / total_nr_count > 0.3 is a division of integers by true
\* division: n / t > 0.3 exactly when 10 n > 3 t.
RECURSIVE blacklist_after(_, _, _)
blacklist_after(blacklist, keys, neg) ==
    IF keys = <<>>
    THEN blacklist
    ELSE LET nrc == Head(keys)
             nr_count == Cardinality({i \in DOMAIN neg :
                             get_negative_response_code(neg[i].resp) = nrc})
             total_nr_count == Len(neg)
             added == IF /\ ~in_list(nrc, blacklist)
                         /\ nr_count > 30
                         /\ 10 * nr_count > 3 * total_nr_count
                      THEN Append(blacklist, nrc)
                      ELSE blacklist
             removed == IF in_list(nrc, added) /\ nr_count < 10
                        THEN list_remove(added, nrc)
                        ELSE added
         IN  blacklist_after(removed, Tail(keys), neg)

\* _prepare_negative_response_blacklist, lines 340-355
PrepareBlacklist ==
    /\ pc = "idle"
    /\ LET neg == results_with_negative_response
       IN  negative_response_blacklist' =
               blacklist_after(negative_response_blacklist,
                               nrc_keys(neg), neg)
    /\ op' = [name |-> "prepare_blacklist", edge |-> NoEdge]
    /\ UNCHANGED <<nrequests, results, result_packets, edge_requests,
                   request_iterators, retry_pkt, state_completed, pc, state,
                   kwargs, it, nsent, ret, trace>>

\* ---------------------------------------------------------------- new edges
\* Faulty variant: the newest state-changing result is taken, wherever it is stored.
get_new_edge_any_result ==
    LET changing == SelectSeq(results, LAMBDA r :
                        /\ r.resp # None /\ is_modifier_pkt(r.resp)
                        /\ get_modified_ecu_state(r.resp, r.req, r.state) # r.state)
    IN  IF changing = <<>>
        THEN [edge |-> NoEdge, req |-> NoPkt]
        ELSE LET r == changing[Len(changing)]
             IN  [edge |-> <<r.state, get_modified_ecu_state(r.resp, r.req, r.state)>>,
                  req |-> r.req]

\* get_new_edge, lines 564-577: the edge returned (NoEdge for None) and the
\* request stored with it.
get_new_edge ==
    IF results = <<>>
    THEN [edge |-> NoEdge, req |-> NoPkt]
    ELSE LET r == results[Len(results)]
         IN  IF r.resp # None /\ is_modifier_pkt(r.resp)
             THEN LET new_state == get_modified_ecu_state(r.resp, r.req, r.state)
                  IN  IF new_state = r.state
                      THEN [edge |-> NoEdge, req |-> NoPkt]
                      ELSE [edge |-> <<r.state, new_state>>, req |-> r.req]
             ELSE [edge |-> NoEdge, req |-> NoPkt]

\* A call of get_new_edge, lines 549-577
GetNewEdge ==
    /\ pc = "idle"
    /\ LET found == get_new_edge
       IN  /\ op' = [name |-> "get_new_edge", edge |-> found.edge]
           /\ edge_requests' = IF found.edge = NoEdge
                               THEN edge_requests
                               ELSE (found.edge :> found.req) @@ edge_requests
    /\ UNCHANGED <<nrequests, results, result_packets,
                   negative_response_blacklist, request_iterators, retry_pkt,
                   state_completed, pc, state, kwargs, it, nsent, ret, trace>>

\* A scan with every operation of the enumerator: between two calls of
\* execute the caller may ask for a new edge and may have the blacklist
\* recomputed.
NextScan == Execute \/ Iterate \/ Finish \/ GetNewEdge \/ PrepareBlacklist

\* The scans SpecScan follows: neither, the one or the other of the two
\* options that end a call on a negative response is set (with both set the
\* first one decides alone, line 226), the other two have their defaults.
ScanKwargs ==
    {kw \in Kwargs : /\ kw.retry_if_busy_returncode
                     /\ ~kw.exit_if_no_answer_received
                     /\ ~(kw.exit_scan_on_first_negative_response
                           /\ kw.exit_if_service_not_supported)}

InitScan ==
    /\ nrequests = MaxReq
    /\ Constructed
    /\ NotStarted
    /\ kwargs \in ScanKwargs

SpecScan == InitScan /\ [][NextScan]_vars

\* The scans in which a negative response as such does not end a call:
\* exit_scan_on_first_negative_response is unset, the other options are free.
InitNoExitScan ==
    /\ nrequests = MaxReq
    /\ Constructed
    /\ NotStarted
    /\ kwargs \in {kw \in Kwargs : ~kw.exit_scan_on_first_negative_response}

SpecNoExitScan == InitNoExitScan /\ [][Next]_vars

\* ----------------------------------------------- a scan with many results
\* How often a seed code and how often busy was answered in a long scan.
SeedCounts == {0, 9, 10, 40}
BusyCounts == {0, 9, 10, 30, 31, 40}

\* The answers of a long scan of S1: a times generalReject, b times
\* serviceNotSupported, c times busy, a positive response and a timeout.
LongScan(a, b, c) ==
    [k \in 1..(a + b + c + 2) |->
        IF k <= a THEN NR(GENERAL_REJECT)
        ELSE IF k <= a + b THEN NR(SERVICE_NOT_SUPPORTED)
        ELSE IF k <= a + b + c THEN NR(BUSY)
        ELSE IF k = a + b + c + 1 THEN PR(NoState)
        ELSE None]

\* The call after which trace[k] was first answered with answers[k].
FirstAnswered(answers, k) ==
    CHOOSE i \in 1..k :
        answers[i] = answers[k] /\ \A j \in 1..(i - 1) : answers[j] # answers[k]

\* The enumerator after one call execute(socket, S1) that sent every request
\* of a long generator and was answered as in answers, with no option set:
\* every exchange was stored and the loop went on (lines 215-267 return
\* False), then lines 203-206 marked S1 completed.
AfterLongScan(answers) ==
    /\ nrequests = Len(answers)
    /\ kwargs = [DefaultKwargs EXCEPT !.retry_if_busy_returncode = FALSE]
    /\ results = [k \in 1..Len(answers) |->
                     [state |-> "S1", req |-> k, resp |-> answers[k],
                      req_obj |-> RequestObject("S1", k),
                      resp_obj |-> IF answers[k] = None THEN NoObject
                                   ELSE FirstAnswered(answers, k)]]
    /\ result_packets =
           [req  |-> [k \in 1..Len(answers) |-> RequestObject("S1", k)],
            resp |-> [r \in {answers[k] : k \in 1..Len(answers)} \ {None} |->
                         CHOOSE i \in 1..Len(answers) :
                             answers[i] = r /\ FirstAnswered(answers, i) = i]]
    /\ negative_response_blacklist = SeedBlacklist
    /\ edge_requests = <<>>
    /\ op = [name |-> "execute", edge |-> NoEdge]
    /\ request_iterators = ("S1" :> Len(answers))
    /\ retry_pkt = [s \in States |-> NoPkt]
    /\ state_completed = {"S1"}
    /\ pc = "idle"
    /\ state = "S1"
    /\ it = <<>>
    /\ nsent = 0
    /\ ret = "exhausted"
    /\ trace = [k \in 1..Len(answers) |->
                   [state |-> "S1", req |-> k, src |-> "fresh", first |-> k = 1,
                    out |-> "ok", resp |-> answers[k], end |-> "continue",
                    pending |-> NoPkt, after |-> NoPkt,
                    done_before |-> FALSE, done_after |-> FALSE, stored |-> 1]]

InitBlacklist ==
    \E a \in SeedCounts, b \in SeedCounts, c \in BusyCounts :
        AfterLongScan(LongScan(a, b, c))

\* The blacklist is recomputed after a long scan.
SpecBlacklist == InitBlacklist /\ [][PrepareBlacklist]_vars

\* ------------------------------------------ a long scan that is continued
\* The counts of generalReject, serviceNotSupported and busy in the long
\* scans that are continued: busy one answer below and just above the
\* threshold of 30 occurrences, with a share just above 30 %, and busy alone.
GrowingScans == {<<9, 62, 30>>, <<9, 63, 31>>, <<0, 0, 40>>}

InitGrowing ==
    \E n \in GrowingScans : AfterLongScan(LongScan(n[1], n[2], n[3]))

\* execute is called again after the long scan; a behaviour is cut off
\* MaxFurther calls of socket.sr1 after it.
ExecuteOn ==
    /\ Len(trace) < nrequests + MaxFurther
    /\ \E st \in States : Call(st)

\* One pass through the body of the for loop, lines 173-201.
IterateOn ==
    /\ pc = "loop"
    /\ ~ChainExhausted
    /\ Len(trace) < nrequests + MaxFurther
    /\ UNCHANGED <<state, op>>
    /\ UNCHANGED Untouched
    /\ LET nx == ChainNext
       IN  /\ request_iterators' = nx.iters
           /\ \/ Sr1Raises(nx)
              \/ SocketClosed(nx)
              \/ \E rs \in Responses \cup {None} : Answered(nx, rs)

NextGrowing == ExecuteOn \/ IterateOn \/ Finish \/ GetNewEdge \/ PrepareBlacklist

\* A long scan goes on: further calls of execute, with calls of get_new_edge
\* and recomputations of the blacklist in between.
SpecGrowing == InitGrowing /\ [][NextGrowing]_vars

\* ------------------------------------------------------------ the scenario
\* The transport of the scenario: the first request (A) is answered busy
\* every time, the second (B) by a positive response that is no modifier
\* packet, the third (C) not at all.
ScenarioAnswers == <<NR(BUSY), PR(NoState), None>>

InitScenario ==
    /\ nrequests = Len(ScenarioAnswers)
    /\ Constructed
    /\ NotStarted
    /\ kwargs = DefaultKwargs

ScenarioExecute == \E st \in States : Call(st)

\* One pass through the loop body, the transport open and answering as
\* the scenario says.
ScenarioIterate ==
    /\ pc = "loop"
    /\ ~ChainExhausted
    /\ UNCHANGED <<state, op>>
    /\ UNCHANGED Untouched
    /\ LET nx == ChainNext
       IN  /\ request_iterators' = nx.iters
           /\ Answered(nx, ScenarioAnswers[nx.req])

NextScenario == ScenarioExecute \/ ScenarioIterate \/ Finish \/ PrepareBlacklist

SpecScenario == InitScenario /\ [][NextScenario]_vars

\* ------------------------------------------------------------ observations
\* The exchanges of device state st, in the order they were made.
Exchanges(st) == SelectSeq(trace, LAMBDA e : e.state = st)

\* Number of requests drawn from the generator of trace[i].state before
\* exchange i.
FreshBefore(i) ==
    Cardinality({j \in 1..(i - 1) :
                    trace[j].state = trace[i].state /\ trace[j].src = "fresh"})

IsBusy(e) == e.out = "ok" /\ e.resp = NR(BUSY)

\* ------------------------------------------------------------------ C1
\* C1 as stated, for any scan with retry_if_busy_returncode enabled:
\* a busy answer with the retry slot empty installs the request and stops,
\* a busy answer to the resent request clears the slot without stopping, and
\* the request is not sent again afterwards.
C1_Original ==
    kwargs.retry_if_busy_returncode =>
        \A i \in DOMAIN trace :
            /\ (IsBusy(trace[i]) /\ trace[i].pending = NoPkt)
                   => (trace[i].after = trace[i].req /\ trace[i].end = "stop")
            /\ (IsBusy(trace[i]) /\ trace[i].src = "retry")
                   => /\ trace[i].after = NoPkt
                      /\ trace[i].end \in {"continue", "timeout"}
                      /\ \A k \in (i + 1)..Len(trace) :
                             trace[k].state = trace[i].state
                                 => trace[k].req # trace[i].req

\* C1 (amended): with retry_if_busy_returncode enabled and
\* exit_scan_on_first_negative_response unset, a request answered busy while
\* the retry slot of its state is empty is installed in the slot and execute
\* stops; when the next call resends it and it is answered busy again the
\* slot is cleared and evaluation does not stop the call, the next request
\* of that call is a fresh one, and the request is never sent a third time.
C1_BusyRetryOnce ==
    (kwargs.retry_if_busy_returncode
        /\ ~kwargs.exit_scan_on_first_negative_response) =>
        \A i \in DOMAIN trace :
            /\ (IsBusy(trace[i]) /\ trace[i].pending = NoPkt)
                   => (trace[i].after = trace[i].req /\ trace[i].end = "stop")
            /\ (IsBusy(trace[i]) /\ trace[i].src = "retry")
                   => /\ trace[i].after = NoPkt
                      /\ trace[i].end \in {"continue", "timeout"}
                      /\ (trace[i].end = "continue" /\ i < Len(trace))
                             => /\ trace[i + 1].state = trace[i].state
                                /\ trace[i + 1].src = "fresh"
                                /\ ~trace[i + 1].first
                      /\ \A k \in (i + 1)..Len(trace) :
                             trace[k].state = trace[i].state
                                 => trace[k].req # trace[i].req

\* A request answered busy, resent by the next call, answered busy again,
\* and followed in that call by the next fresh request.
C1_Witness ==
    /\ kwargs.retry_if_busy_returncode
    /\ ~kwargs.exit_scan_on_first_negative_response
    /\ \E i \in DOMAIN trace :
        /\ i + 2 <= Len(trace)
        /\ IsBusy(trace[i]) /\ trace[i].pending = NoPkt /\ trace[i].src = "fresh"
        /\ IsBusy(trace[i + 1]) /\ trace[i + 1].src = "retry"
        /\ trace[i + 1].first
        /\ trace[i + 1].state = trace[i].state
        /\ trace[i + 1].req = trace[i].req
        /\ trace[i + 2].state = trace[i].state
        /\ trace[i + 2].src = "fresh"
        /\ ~trace[i + 2].first

\* ------------------------------------------------------------------ C2
\* C2: an exchange that resends the retry item and is evaluated (any answer
\* or none) leaves the retry slot of its state empty, and a retry is
\* installed only into an empty slot.
C2_RetryConsumedOnce ==
    \A i \in DOMAIN trace :
        /\ (trace[i].src = "retry" /\ trace[i].out = "ok")
               => trace[i].after = NoPkt
        /\ (trace[i].after # trace[i].pending /\ trace[i].after # NoPkt)
               => trace[i].pending = NoPkt

\* ------------------------------------------------------------------ C3
\* C3: the first request of every call is the request held in the retry
\* slot of the state when the call starts, and with an empty slot it is the
\* next item of the state's generator that has not been drawn yet.
C3_RetryFirst ==
    LET requests == InitialRequests
    IN  \A i \in DOMAIN trace :
            trace[i].first =>
                IF trace[i].pending # NoPkt
                THEN trace[i].src = "retry" /\ trace[i].req = trace[i].pending
                ELSE /\ trace[i].src = "fresh"
                     /\ trace[i].req = requests[FreshBefore(i) + 1]

\* One call began with the resend of a pending retry and a later call, with
\* the slot empty, began with the second item of the generator.
C3_Witness ==
    \E i, j \in DOMAIN trace :
        /\ i < j
        /\ trace[i].state = trace[j].state
        /\ trace[i].first /\ trace[i].pending # NoPkt /\ trace[i].src = "retry"
        /\ trace[j].first /\ trace[j].pending = NoPkt /\ trace[j].req = 2

\* ------------------------------------------------------------------ C4
\* C4: the generator of a state is never restarted: the requests drawn from
\* it over all calls are the first items of the initial-request sequence, in
\* order and once each, the registry holds exactly that count, and a request
\* is sent again only as the content of the retry slot.
C4_GeneratorPrefix ==
    LET requests == InitialRequests
    IN  /\ \A st \in States :
               Drawn(st) = Cardinality({i \in DOMAIN trace :
                               trace[i].state = st /\ trace[i].src = "fresh"})
        /\ \A j \in DOMAIN trace :
               /\ trace[j].src = "fresh"
                      => LET before == FreshBefore(j)
                         IN  /\ before < Len(requests)
                             /\ trace[j].req = requests[before + 1]
               /\ \A i \in 1..(j - 1) :
                      (trace[i].state = trace[j].state /\ trace[i].req = trace[j].req)
                      => (trace[j].src = "retry" /\ trace[j].pending = trace[j].req)

\* Two calls for one state drew the first and the second item, and the first
\* item was also sent a second time out of the retry slot.
C4_Witness ==
    \E i, j, k \in DOMAIN trace :
        /\ i < j /\ j < k
        /\ trace[i].state = trace[j].state /\ trace[j].state = trace[k].state
        /\ trace[i].src = "fresh" /\ trace[i].req = 1
        /\ trace[j].src = "retry" /\ trace[j].req = 1 /\ trace[j].first
        /\ trace[k].src = "fresh" /\ trace[k].req = 2 /\ trace[k].first

\* ------------------------------------------------------------------ C5
\* C5: the first transport failure of a state installs the request just
\* sent in the retry slot of that state and propagates; that exchange stores
\* no result and does not mark the state completed.
C5_FirstFailureInstalls ==
    \A i \in DOMAIN trace :
        (/\ trace[i].out = "raise"
         /\ \A j \in 1..(i - 1) :
                ~(trace[j].state = trace[i].state /\ trace[j].out = "raise"))
        => /\ trace[i].end = "raise"
           /\ trace[i].after = trace[i].req
           /\ trace[i].stored = 0
           /\ trace[i].done_after = trace[i].done_before

\* ------------------------------------------------------------------ C6
\* C6: when a request whose exchange failed is resent by the next call for
\* the state and the exchange fails again, the failure propagates and no
\* later exchange of that state sends the request again.
C6_FailureRetriedOnce ==
    \A st \in States :
        LET ex == Exchanges(st)
        IN  \A i \in DOMAIN ex :
                (/\ i + 1 <= Len(ex)
                 /\ ex[i].out = "raise" /\ ex[i].after = ex[i].req
                 /\ ex[i + 1].out = "raise" /\ ex[i + 1].src = "retry"
                 /\ ex[i + 1].req = ex[i].req)
                => /\ ex[i + 1].end = "raise"
                   /\ \A k \in (i + 2)..Len(ex) : ex[k].req # ex[i].req

\* ------------------------------------------------------------------ C7
\* The stored results, read off the exchanges that stored one.
StoredExchanges == SelectSeq(trace, LAMBDA e : e.out = "ok")
NotRaised == SelectSeq(trace, LAMBDA e : e.out # "raise")
AsResult(e) == [state |-> e.state, req |-> e.req, resp |-> e.resp]
\* The state and the bytes of the two packets of a stored result.
Content(r) == [state |-> r.state, req |-> r.req, resp |-> r.resp]

\* C7 as stated: every exchange that returned without a transport
\* failure stored exactly one result.
C7_Original ==
    /\ Len(results) = Len(NotRaised)
    /\ \A i \in DOMAIN trace : trace[i].out # "raise" => trace[i].stored = 1

\* C7 (amended): every exchange that returns without a transport failure and
\* after which the transport does not report itself closed appends exactly
\* one result (state, request, response or none), whatever the evaluation
\* of the response decides; the Result Store is the sequence of these
\* exchanges, and no other exchange stores anything.
C7_OneResultPerExchange ==
    /\ LET exchanged == StoredExchanges
       IN  /\ Len(results) = Len(exchanged)
           /\ \A k \in DOMAIN results : Content(results[k]) = AsResult(exchanged[k])
    /\ \A i \in DOMAIN trace :
           trace[i].stored = (IF trace[i].out = "ok" THEN 1 ELSE 0)

\* An answered exchange, an exchange that timed out and was stored although
\* evaluation stopped the call, and an exchange that found the transport
\* closed.
C7_Witness ==
    /\ Len(results) = 2
    /\ \E i, j, k \in DOMAIN trace :
        /\ trace[i].out = "ok" /\ trace[i].resp # None
        /\ trace[j].out = "ok" /\ trace[j].resp = None /\ trace[j].end = "stop"
        /\ trace[k].out = "closed"

\* ------------------------------------------------------------------ C8
\* C8: an exchange after which the transport reports itself closed ends the
\* call by a plain return: nothing is raised or stored, the retry slot and
\* the completed flag of the state are as before, and the next request, if
\* any, belongs to a new call.
C8_ClosedStops ==
    /\ \A i \in DOMAIN trace :
           trace[i].out = "closed"
           => /\ trace[i].end = "closed"
              /\ trace[i].stored = 0
              /\ trace[i].after = trace[i].pending
              /\ trace[i].done_after = trace[i].done_before
              /\ i < Len(trace) => trace[i + 1].first
    /\ (trace # <<>> /\ trace[Len(trace)].out = "closed")
           => IF pc = "idle" THEN ret \in {"closed", "exhausted"} ELSE nsent = 0

\* The transport closed while requests of the state were still undrawn, the
\* state is not completed, and a later call sent the next request.
C8_Witness ==
    \E i \in DOMAIN trace :
        /\ trace[i].out = "closed"
        /\ ~trace[i].done_after
        /\ i < Len(trace)
        /\ trace[i + 1].state = trace[i].state
        /\ trace[i + 1].src = "fresh"

NotSupportedStored(st) ==
    \E k \in DOMAIN results :
        /\ results[k].state = st
        /\ results[k].resp.service = NEGATIVE_RESPONSE
        /\ results[k].resp.code \in
               {SERVICE_NOT_SUPPORTED, SERVICE_NOT_SUPPORTED_IN_SESSION}

CompletedByEvaluation(e) ==
    /\ kwargs.exit_if_service_not_supported
    /\ ~kwargs.exit_scan_on_first_negative_response
    /\ e.out = "ok"
    /\ e.resp.service = NEGATIVE_RESPONSE
    /\ e.resp.code \in {SERVICE_NOT_SUPPORTED, SERVICE_NOT_SUPPORTED_IN_SESSION}

EndOfCall ==
    pc = "loop" /\ pc' = "idle"
    => IF ChainExhausted
       THEN \* lines 203-206, with no further exchange
            /\ ret' = "exhausted"
            /\ state_completed' = state_completed \cup {state}
            /\ trace' = trace
       ELSE \* a return or raise out of the loop body
            /\ ret' \in {"raise", "closed", "stop", "timeout"}
            /\ Len(trace') = Len(trace) + 1
            /\ ret' = trace'[Len(trace')].end
            /\ IF ret' = "stop" /\ CompletedByEvaluation(trace'[Len(trace')])
               THEN state_completed' = state_completed \cup {state}
               ELSE state_completed' = state_completed

\* C10: a call of execute marks its state completed through lines 203-206
\* exactly when it ends with the request stream exhausted; a call whose
\* stream is exhausted at its start does so after zero exchanges, and a call
\* ended by the execution time, by a stop decision, by a closed transport or
\* by a transport failure leaves the completed set alone, except for the
\* completion that the evaluation itself records.
C10_CompletionByLoop == [][EndOfCall]_vars

\* A call was ended by the execution time right after the last request of
\* the state, without completion, and the next call for the state completed
\* it with zero exchanges.
C10_Witness ==
    /\ pc = "idle" /\ ret = "exhausted"
    /\ trace # <<>>
    /\ LET e == trace[Len(trace)]
       IN  /\ e.state = state
           /\ e.end = "timeout"
           /\ e.req = InitialRequests[Len(InitialRequests)]
           /\ ~e.done_after
    /\ state \in state_completed

\* ------------------------------------------------------------------ C11
IsNegative(e) == e.out = "ok" /\ e.resp.service = NEGATIVE_RESPONSE

\* C11: with exit_scan_on_first_negative_response set, a negative response
\* ends the call and no exchange is made afterwards, by any call for any
\* state.
C11_ExitScanTerminal ==
    kwargs.exit_scan_on_first_negative_response =>
        \A i \in DOMAIN trace :
            IsNegative(trace[i]) => (trace[i].end = "stop" /\ i = Len(trace))

\* ------------------------------------------------------------------ C12
NotSupportedCodes == {SERVICE_NOT_SUPPORTED, SERVICE_NOT_SUPPORTED_IN_SESSION}

\* C12: with exit_if_service_not_supported set and
\* exit_scan_on_first_negative_response unset, a negative response with code
\* 0x11 or 0x7f marks the state of the request completed and ends the call;
\* a negative response with another code leaves the completed flag alone and
\* is decided by the later rules: the busy rule installs it as retry and
\* stops, or clears the slot after a resend, and otherwise the slot is
\* cleared and the call is not stopped (a negative response changes no
\* state).
C12_NotSupportedCompletes ==
    (kwargs.exit_if_service_not_supported
        /\ ~kwargs.exit_scan_on_first_negative_response) =>
        \A i \in DOMAIN trace :
            LET e == trace[i]
            IN  IsNegative(e) =>
                    IF e.resp.code \in NotSupportedCodes
                    THEN e.done_after /\ e.end = "stop" /\ e.after = e.pending
                    ELSE /\ e.done_after = e.done_before
                         /\ IF kwargs.retry_if_busy_returncode /\ e.resp.code = BUSY
                            THEN IF e.pending = NoPkt
                                 THEN e.after = e.req /\ e.end = "stop"
                                 ELSE e.after = NoPkt /\ e.end # "stop"
                            ELSE e.after = NoPkt /\ e.end # "stop"

\* A 0x7f answer completed a state whose generator still had requests, and
\* in the same scan a negative answer with another code fell through to the
\* busy rule.
C12_Witness ==
    /\ kwargs.exit_if_service_not_supported
    /\ ~kwargs.exit_scan_on_first_negative_response
    /\ \E i, j \in DOMAIN trace :
        /\ IsNegative(trace[i])
        /\ trace[i].resp.code = SERVICE_NOT_SUPPORTED_IN_SESSION
        /\ ~trace[i].done_before /\ trace[i].done_after
        /\ trace[i].end = "stop"
        /\ trace[i].req # InitialRequests[Len(InitialRequests)]
        /\ IsNegative(trace[j])
        /\ trace[j].resp.code = BUSY
        /\ ~trace[j].done_after

\* ------------------------------------------------------------------ C15
\* With exchange i every request of the generator of its state is drawn.
NoneLeft(i) ==
    FreshBefore(i) + (IF trace[i].src = "fresh" THEN 1 ELSE 0)
        = Len(InitialRequests)

\* C15: an exchange that timed out ends the call exactly when
\* exit_if_no_answer_received is set; otherwise the loop goes on to the next
\* request of the same call, a fresh one, and the call ends without another
\* exchange only if the state has none left, unless the execution time is
\* used up.  The completed flag and the retry slot of the state are as before the exchange.
C15_NoAnswer ==
    \A i \in DOMAIN trace :
        LET e == trace[i]
        IN  (e.out = "ok" /\ e.resp = None) =>
                /\ IF kwargs.exit_if_no_answer_received
                   THEN e.end = "stop"
                   ELSE /\ e.end \in {"continue", "timeout"}
                        /\ (e.end = "continue" /\ i < Len(trace))
                               => IF trace[i + 1].first
                                  THEN NoneLeft(i)
                                  ELSE /\ trace[i + 1].state = e.state
                                       /\ trace[i + 1].src = "fresh"
                /\ e.done_after = e.done_before
                /\ e.after = e.pending

\* With exit_if_no_answer_received set, an exchange timed out and ended its
\* call, and the next call for the state went on with the next request.
C15_Witness ==
    /\ kwargs.exit_if_no_answer_received
    /\ \E i \in DOMAIN trace :
        /\ trace[i].out = "ok" /\ trace[i].resp = None
        /\ trace[i].end = "stop"
        /\ ~trace[i].done_after
        /\ i < Len(trace)
        /\ trace[i + 1].state = trace[i].state
        /\ trace[i + 1].first /\ trace[i + 1].src = "fresh"

\* ------------------------------------------------------------------ C13
\* The exchange was answered by a modifier packet that leads to another
\* state than the one the request was sent in.
StateChanging(e) ==
    /\ e.out = "ok"
    /\ e.resp # None
    /\ is_modifier_pkt(e.resp)
    /\ get_modified_ecu_state(e.resp, e.req, e.state) # e.state

\* One of the rules of lines 215-256 decided the exchange.
EarlierRuleMatched(e) ==
    \/ e.resp = None
    \/ /\ e.resp.service = NEGATIVE_RESPONSE
       /\ \/ kwargs.exit_scan_on_first_negative_response
          \/ kwargs.exit_if_service_not_supported
                 /\ e.resp.code \in NotSupportedCodes
          \/ kwargs.retry_if_busy_returncode /\ e.resp.code = BUSY

\* C13: an exchange answered by a state-changing response that no earlier
\* rule decided is stored and ends its call, so that the next exchange, if
\* any, is the first of another call; while it is the latest exchange its
\* result is the last stored one, and a call of get_new_edge made then
\* returns the edge from the state of the request to the new state and has
\* the request recorded for that edge.
C13_StateChangeStops ==
    /\ \A i \in DOMAIN trace :
           (StateChanging(trace[i]) /\ ~EarlierRuleMatched(trace[i]))
           => /\ trace[i].end = "stop"
              /\ trace[i].stored = 1
              /\ i < Len(trace) => trace[i + 1].first
    /\ (trace # <<>> /\ StateChanging(trace[Len(trace)])
                     /\ ~EarlierRuleMatched(trace[Len(trace)]))
           => LET e == trace[Len(trace)]
                  edge == <<e.state, get_modified_ecu_state(e.resp, e.req, e.state)>>
              IN  /\ results # <<>>
                  /\ Content(results[Len(results)]) = AsResult(e)
                  /\ op.name = "get_new_edge"
                         => /\ op.edge = edge
                            /\ edge \in DOMAIN edge_requests
                            /\ edge_requests[edge] = e.req

\* After two other exchanges a request sent in S1 was answered by a response
\* that moves the device to S2, and get_new_edge was called next.
C13_Witness ==
    /\ Len(trace) = 3
    /\ StateChanging(trace[3])
    /\ ~trace[3].first
    /\ pc = "idle"
    /\ op = [name |-> "get_new_edge", edge |-> <<"S1", "S2">>]
    /\ edge_requests[<<"S1", "S2">>] = trace[3].req

\* ------------------------------------------------------------------ C14
\* The last stored result holds a state-changing response.
LastResultChanging ==
    /\ results # <<>>
    /\ LET r == results[Len(results)]
       IN  /\ r.resp # None
           /\ is_modifier_pkt(r.resp)
           /\ get_modified_ecu_state(r.resp, r.req, r.state) # r.state

GetNewEdgeStep ==
    op'.name = "get_new_edge" =>
        IF LastResultChanging
        THEN LET r == results[Len(results)]
                 edge == <<r.state, get_modified_ecu_state(r.resp, r.req, r.state)>>
             IN  /\ op'.edge = edge
                 /\ DOMAIN edge_requests' = DOMAIN edge_requests \cup {edge}
                 /\ edge_requests'[edge] = r.req
                 /\ \A other \in DOMAIN edge_requests \ {edge} :
                        edge_requests'[other] = edge_requests[other]
        ELSE /\ op'.edge = NoEdge
             /\ edge_requests' = edge_requests

\* C14: a call of get_new_edge looks at the last stored result only.  When
\* that result holds a modifier response leading from its state A to another
\* state B, the call returns <<A, B>> and records the request of the result
\* for that edge, leaving the other edges as they are; with no result, no
\* response, a response that is no modifier, or one that leads to A itself,
\* it returns nothing and the recorded edges are unchanged.
C14_LastResultOnly == [][GetNewEdgeStep]_vars

\* get_new_edge returned nothing although an earlier result holds a
\* state-changing response: the last stored result does not.
C14_Witness ==
    /\ op = [name |-> "get_new_edge", edge |-> NoEdge]
    /\ DOMAIN edge_requests = {}
    /\ ~LastResultChanging
    /\ \E k \in DOMAIN results :
           /\ results[k].resp # None
           /\ is_modifier_pkt(results[k].resp)
           /\ get_modified_ecu_state(results[k].resp, results[k].req,
                                     results[k].state) # results[k].state

\* ------------------------------------------------------------------ C17
ResultsExtended ==
    /\ Len(results) <= Len(results')
    /\ SubSeq(results', 1, Len(results)) = results

\* C17: whatever operation runs (a step of execute, get_new_edge, the
\* recomputation of the blacklist; the derived views are expressions over
\* the store and write nothing), the stored results before the step are a
\* prefix of the stored results after it.
C17_AppendOnly == [][ResultsExtended]_vars

\* Results were stored, an edge was recorded and the blacklist was changed
\* by a recomputation.
C17_Witness ==
    /\ Len(results) >= 2
    /\ DOMAIN edge_requests # {}
    /\ negative_response_blacklist # SeedBlacklist
    /\ op.name = "prepare_blacklist"

\* ------------------------------------------------------------------ C19
\* C19: the filtered view is the subsequence of the stored results that have
\* a response which is positive, or negative with a code outside the
\* blacklist; the views with and without response are the subsequences of
\* the results with and without a response, so every result is in exactly
\* one of them; the negative and the positive view are the subsequences of
\* the view with response whose service byte is and is not 0x7f.
C19_Views ==
    LET blacklisted == {negative_response_blacklist[i] :
                            i \in DOMAIN negative_response_blacklist}
        answered == results_with_response
        unanswered == results_without_response
    IN  /\ filtered_results =
               SelectSeq(results, LAMBDA r :
                   /\ r.resp # None
                   /\ \/ r.resp.service # NEGATIVE_RESPONSE
                      \/ r.resp.code \notin blacklisted)
        /\ answered = SelectSeq(results, LAMBDA r : r.resp # None)
        /\ unanswered = SelectSeq(results, LAMBDA r : r.resp = None)
        /\ Len(answered) + Len(unanswered) = Len(results)
        /\ results_with_negative_response =
               SelectSeq(answered, LAMBDA r : r.resp.service = NEGATIVE_RESPONSE)
        /\ results_with_positive_response =
               SelectSeq(answered, LAMBDA r : r.resp.service # NEGATIVE_RESPONSE)
        /\ Len(results_with_negative_response)
               + Len(results_with_positive_response) = Len(answered)

\* Three results are stored: a negative response with the blacklisted code
\* 0x11, which the filtered view leaves out, a positive response and an
\* exchange without response.
C19_Witness ==
    /\ Len(results) = 3
    /\ Len(filtered_results) = 1
    /\ Len(results_with_response) = 2
    /\ Len(results_without_response) = 1
    /\ Len(results_with_positive_response) = 1
    /\ \E k \in DOMAIN results : results[k].resp = NR(SERVICE_NOT_SUPPORTED)
    /\ in_list(SERVICE_NOT_SUPPORTED, negative_response_blacklist)

\* ------------------------------------------------------------------ C20
\* Every result holds the request instance of the first stored exchange
\* that sent the same bytes, and that instance is the one in the table.
CanonicalRequests ==
    LET exchanged == StoredExchanges
    IN  \A i \in DOMAIN results :
            LET k == CHOOSE k \in 1..i :
                         /\ results[k].req = results[i].req
                         /\ \A j \in 1..(k - 1) : results[j].req # results[i].req
                sent == RequestObject(exchanged[k].state, exchanged[k].req)
            IN  /\ results[i].req_obj = sent
                /\ results[i].req \in DOMAIN result_packets.req
                /\ result_packets.req[results[i].req] = sent

TableGrows ==
    /\ \A b \in DOMAIN result_packets.req :
           /\ b \in DOMAIN result_packets'.req
           /\ result_packets'.req[b] = result_packets.req[b]
    /\ \A b \in DOMAIN result_packets.resp :
           /\ b \in DOMAIN result_packets'.resp
           /\ result_packets'.resp[b] = result_packets.resp[b]

\* C20: two results with equal request bytes hold the same request
\* instance, the first one stored with those bytes, and no step removes or
\* replaces an entry of the table of interned packets.
C20_Interning == []CanonicalRequests /\ [][TableGrows]_vars

\* The same bytes were sent by the generators of both states: the later
\* result holds the instance of the earlier one, not the one that was sent.
C20_Witness ==
    \E i, j \in DOMAIN results :
        /\ i < j
        /\ results[i].req = results[j].req
        /\ results[i].state # results[j].state
        /\ results[j].req_obj = RequestObject(results[i].state, results[i].req)
        /\ results[j].req_obj # RequestObject(results[j].state, results[j].req)

\* ------------------------------------------------------------------ C16
\* Number of stored negative responses with code c, and of all of them.
Occurrences(c) ==
    Cardinality({k \in DOMAIN results :
                    /\ results[k].resp.service = NEGATIVE_RESPONSE
                    /\ results[k].resp.code = c})
Negatives ==
    Cardinality({k \in DOMAIN results : results[k].resp.service = NEGATIVE_RESPONSE})
Blacklisted(l) == {l[i] : i \in DOMAIN l}
KnownCodes ==
    {results[k].resp.code : k \in DOMAIN results}
        \cup Blacklisted(negative_response_blacklist)
        \cup Blacklisted(negative_response_blacklist')

\* What a recomputation adds: a code that is not blacklisted is blacklisted
\* afterwards iff it occurs more than 30 times and in more than 30 % of the
\* negative responses.
AddedByShare ==
    \A c \in KnownCodes \ Blacklisted(negative_response_blacklist) :
        c \in Blacklisted(negative_response_blacklist')
            <=> (Occurrences(c) > 30 /\ 10 * Occurrences(c) > 3 * Negatives)

RecomputationAsStated ==
    op'.name = "prepare_blacklist" =>
        /\ AddedByShare
        /\ \A c \in Blacklisted(negative_response_blacklist) :
               Occurrences(c) < 10
                   => c \notin Blacklisted(negative_response_blacklist')
        /\ \A c \in Blacklisted(negative_response_blacklist') :
               Occurrences(c) >= 10

\* C16 as stated: a recomputation adds by count and share, removes
\* every blacklisted code with fewer than 10 occurrences, and leaves only
\* codes with at least 10 occurrences blacklisted.
C16_Original == [][RecomputationAsStated]_vars

Recomputation ==
    op'.name = "prepare_blacklist" =>
        /\ AddedByShare
        /\ \A c \in Blacklisted(negative_response_blacklist) :
               c \in Blacklisted(negative_response_blacklist')
                   <=> (Occurrences(c) = 0 \/ Occurrences(c) >= 10)
        /\ \A c \in Blacklisted(negative_response_blacklist') :
               Occurrences(c) = 0 \/ Occurrences(c) >= 10

\* C16 (amended): a recomputation counts all stored negative responses; a
\* code that is not blacklisted is added iff it occurs more than 30 times and
\* in more than 30 % of them; a blacklisted code is removed iff it has
\* occurred at least once and fewer than 10 times, so that afterwards every
\* blacklisted code has no occurrence at all or at least 10.
C16_Recomputation == [][Recomputation]_vars

\* A recomputation added busy (40 of 49 negative responses), removed
\* generalReject (9 occurrences) and kept serviceNotSupported, which never
\* occurred.
C16_Witness ==
    /\ op.name = "prepare_blacklist"
    /\ negative_response_blacklist = <<SERVICE_NOT_SUPPORTED, BUSY>>
    /\ Occurrences(BUSY) = 40
    /\ Occurrences(GENERAL_REJECT) = 9
    /\ Occurrences(SERVICE_NOT_SUPPORTED) = 0

\* ------------------------------------------------------------------ C18
\* C18: in the scenario the blacklist is the seed list throughout.  The
\* first exchange of S1 sends A, is answered busy and stored, installs A as
\* retry and ends its call with S1 not completed.  The second call for S1
\* resends A first, stores the busy answer and clears the slot; unless the
\* execution time ends it, it goes on to store (B, positive) and
\* (C, no response), and returns with S1 completed and the slot empty: the
\* results of S1 are then these four, in this order.
C18_Scenario ==
    LET ex == Exchanges("S1")
        mine == SelectSeq(results, LAMBDA r : r.state = "S1")
        in_time == \A i \in DOMAIN ex : ex[i].end # "timeout"
        busy_A == [state |-> "S1", req |-> 1, resp |-> NR(BUSY)]
    IN  /\ negative_response_blacklist = SeedBlacklist
        /\ Len(ex) >= 1
               => /\ ex[1].first /\ ex[1].src = "fresh"
                  /\ AsResult(ex[1]) = busy_A
                  /\ ex[1].stored = 1
                  /\ ex[1].after = 1
                  /\ ex[1].end = "stop"
                  /\ ~ex[1].done_after
        /\ Len(ex) = 1
               => /\ "S1" \notin state_completed
                  /\ retry_pkt["S1"] = 1
                  /\ Len(mine) = 1 /\ Content(mine[1]) = busy_A
        /\ Len(ex) >= 2
               => /\ ex[2].first /\ ex[2].src = "retry"
                  /\ AsResult(ex[2]) = busy_A
                  /\ ex[2].stored = 1
                  /\ ex[2].after = NoPkt
        /\ in_time
               => /\ Len(ex) <= 4
                  /\ Len(ex) \in {2, 3} => (pc = "loop" /\ state = "S1")
                  /\ Len(ex) >= 2 => ex[2].end = "continue"
                  /\ Len(ex) >= 3
                         => /\ ~ex[3].first
                            /\ AsResult(ex[3]) =
                                   [state |-> "S1", req |-> 2, resp |-> PR(NoState)]
                            /\ ex[3].stored = 1
                  /\ Len(ex) = 4
                         => /\ ~ex[4].first
                            /\ AsResult(ex[4]) =
                                   [state |-> "S1", req |-> 3, resp |-> None]
                            /\ ex[4].stored = 1
                            /\ retry_pkt["S1"] = NoPkt
                            /\ Len(mine) = 4
                            /\ \A k \in 1..4 : Content(mine[k]) = AsResult(ex[k])
                  /\ "S1" \in state_completed => Len(ex) = 4
                  /\ (Len(ex) = 4 /\ ~(pc = "loop" /\ state = "S1"))
                         => "S1" \in state_completed

\* Two calls for S1 made the four exchanges, S1 is completed, and the
\* blacklist was recomputed afterwards.
C18_Witness ==
    LET ex == Exchanges("S1")
    IN  /\ Len(ex) = 4
        /\ ex[1].first /\ ex[2].first /\ ~ex[3].first /\ ~ex[4].first
        /\ "S1" \in state_completed
        /\ retry_pkt["S1"] = NoPkt
        /\ op.name = "prepare_blacklist"

\* ------------------------------------------------------------------ C21
\* The first exchange of the call that made exchange i.
CallStart(i) ==
    CHOOSE f \in 1..i : trace[f].first /\ \A j \in (f + 1)..i : ~trace[j].first

\* Up to exchange i the transport of the state stayed open and never raised,
\* and no response changed the state.
QuietUpTo(i) ==
    \A j \in 1..i :
        trace[j].state = trace[i].state
            => (trace[j].out = "ok" /\ ~StateChanging(trace[j]))

\* The call that ended with exchange i drew a fresh request, or cleared the
\* retry that was pending when it began, or left its state completed.
CallProgressed(i) ==
    LET f == CallStart(i)
    IN  \/ \E k \in f..i : trace[k].src = "fresh"
        \/ trace[f].pending # NoPkt /\ trace[i].after = NoPkt
        \/ trace[i].done_after

\* C21: with a transport that stays open and never raises and without
\* state-changing responses, every call of execute that makes an exchange
\* draws at least one fresh request, or clears a pending retry, or marks its
\* state completed, whatever the options and the time budget (a call that
\* finds nothing to send marks completion, lines 203-206); this is the
\* progress by which repeated calls for a state reach its completion.
C21_EveryCallProgresses ==
    \A i \in DOMAIN trace :
        (trace[i].end # "continue" /\ QuietUpTo(i)) => CallProgressed(i)

\* ------------------------------------------------------------------ C22
\* The call that made exchange k has returned or raised.
CallEnded(k) == pc = "idle" \/ k <= Len(trace) - nsent

\* The last exchange of the call that made exchange k.
CallEnd(k) ==
    CHOOSE l \in k..Len(trace) :
        /\ l = Len(trace) \/ trace[l + 1].first
        /\ \A j \in (k + 1)..l : ~trace[j].first

\* C22: when a call of execute has ended, by return or by a propagated
\* transport failure, every request it drew from the generator of its state
\* is the request of a stored result or is held in the retry slot of the
\* state as the call left it.
C22_NoRequestDropped ==
    \A k \in DOMAIN trace :
        (trace[k].src = "fresh" /\ CallEnded(k)) =>
            \/ \E j \in DOMAIN results : results[j].req = trace[k].req
            \/ trace[CallEnd(k)].after = trace[k].req

\* ------------------------------------------------------------------ C23
\* The codes a negative response can carry or the blacklist can hold.
AllCodes == NegativeCodes \cup Blacklisted(SeedBlacklist)

\* Every blacklisted code is a code of the seed list or occurs more than 30
\* times.
AddedAbove30 ==
    \A c \in Blacklisted(negative_response_blacklist) :
        c \in Blacklisted(SeedBlacklist) \/ Occurrences(c) > 30

BlacklistStep ==
    /\ \A c \in AllCodes : Occurrences(c)' >= Occurrences(c)
    /\ op'.name # "prepare_blacklist"
           => negative_response_blacklist' = negative_response_blacklist
    /\ \A c \in Blacklisted(negative_response_blacklist') :
           c \notin Blacklisted(negative_response_blacklist)
               => Occurrences(c) > 30
    /\ \A c \in Blacklisted(negative_response_blacklist) :
           c \notin Blacklisted(negative_response_blacklist')
               => (c \in Blacklisted(SeedBlacklist) /\ Occurrences(c) < 10)
    /\ \A c \in Blacklisted(negative_response_blacklist) :
           Occurrences(c) > 30 => c \in Blacklisted(negative_response_blacklist')

\* C23: no step lowers the number of stored negative responses with a given
\* code; only a recomputation changes the blacklist, execute and
\* get_new_edge leave it alone; a recomputation adds a code only when it
\* occurs more than 30 times and removes only a code of the seed list with
\* fewer than 10 occurrences, so a code that occurs more than 30 times stays
\* blacklisted in every later recomputation.
C23_BlacklistMonotone == []AddedAbove30 /\ [][BlacklistStep]_vars

\* A recomputation blacklisted busy and removed generalReject (9
\* occurrences); the scan went on, and a later recomputation kept busy,
\* although busy is by now no more than 30 % of the negative responses and
\* would not be added.
C23_Witness ==
    /\ op.name = "prepare_blacklist"
    /\ Len(results) > nrequests
    /\ BUSY \in Blacklisted(negative_response_blacklist)
    /\ GENERAL_REJECT \notin Blacklisted(negative_response_blacklist)
    /\ Occurrences(BUSY) > 30
    /\ 10 * Occurrences(BUSY) <= 3 * Negatives


====
